---- MODULE Spec2Model ----
(***************************************************************************)
(* Model of netusage.py: a sampler that appends cumulative RX/TX byte      *)
(* counters of a network interface to a SQLite table, and a reporter that  *)
(* sums the clamped differences of consecutive samples over a time window. *)
(*                                                                         *)
(* Timestamps are epoch seconds.  The local timezone of the model is UTC   *)
(* without DST, so the calendar day "1970-01-01" starts at 0.              *)
(* time.time() is taken to be non-decreasing.                              *)
(***************************************************************************)
EXTENDS Integers, Sequences, FiniteSets, TLC

\* ------------------------------------------------------------------ bounds
\* rows the samples table may hold in Spec and in SpecWatch
MaxSamples == 3
\* rows the samples table may hold in SpecReport
MaxReportSamples == 2

\* ------------------------------------------------------- program constants
HourSecs == 3600
HoursPerDay == 24
DaySecs == 86400

\* ------------------------------------------------------------- input sets
\* the instants at which the clock is read
Instants == {1, 3600, 5400}
Ifaces == {"en0", "en1"}
\* (rx, tx) pairs the interface reader returns
Readings == {<<0, 2>>, <<1, 0>>, <<2, 1>>}
\* the reader raising (netstat failed)
ReadFail == <<>>

NoSample == [ts |-> -1, iface |-> "", rx |-> 0, tx |-> 0]

VARIABLES
    store,      \* the samples table, in rowid (insertion) order
    clock,      \* the latest value time.time() returned
    report,     \* what the running report invocation did; Idle between invocations
    pc,         \* cmd_watch: position of the loop
    pending,    \* cmd_watch: the row INSERTed and not yet committed, or NoSample
    sig,        \* cmd_watch: an interrupt signal was delivered
    errs        \* cmd_watch: the last tick ended in the except branch ("[hata]" printed)

vars == <<store, clock, report, pc, pending, sig, errs>>

Idle == [status |-> "idle"]

\* the table is empty and no command runs
Init ==
    /\ store = <<>>
    /\ clock = 1
    /\ report = Idle
    /\ pc = "off"
    /\ pending = NoSample
    /\ sig = FALSE
    /\ errs = FALSE

\* ---------------------------------------------------------------- helpers
Min(a, b) == IF a <= b THEN a ELSE b

TimesFrom(t) == {u \in Instants : u >= t}

\* --------------------------------------------------------- insert_sample
Sample(ts, iface, reading) ==
    [ts |-> ts, iface |-> iface, rx |-> reading[1], tx |-> reading[2]]

\* faulty variant: the INSERT is never committed
insert_sample_NoCommit(st, ts, iface, reading) == st

insert_sample(st, ts, iface, reading) == Append(st, Sample(ts, iface, reading))

\* ------------------------------------------------- compute_usage_between
\* ORDER BY ts ASC: rows of equal ts stay in rowid order
RECURSIVE InsertByTs(_, _)
InsertByTs(sorted, row) ==
    IF sorted = <<>> THEN <<row>>
    ELSE IF sorted[Len(sorted)].ts <= row.ts THEN Append(sorted, row)
    ELSE Append(InsertByTs(SubSeq(sorted, 1, Len(sorted) - 1), row), sorted[Len(sorted)])

RECURSIVE OrderByTs(_)
OrderByTs(rows) ==
    IF rows = <<>> THEN <<>>
    ELSE InsertByTs(OrderByTs(SubSeq(rows, 1, Len(rows) - 1)), rows[Len(rows)])

InWindow(row, start_ts, end_ts, iface) ==
    row.iface = iface /\ row.ts >= start_ts /\ row.ts <= end_ts

\* SELECT ... WHERE iface = ? AND ts BETWEEN ? AND ? ORDER BY ts ASC
FetchRows(st, start_ts, end_ts, iface) ==
    OrderByTs(SelectSeq(st, LAMBDA row : InWindow(row, start_ts, end_ts, iface)))

\* faulty variant: the reset clamp is missing
ClampDelta_NoClamp(curr, prev) == curr - prev

\* if dr < 0: dr = 0 (and the same for dt)
ClampDelta(curr, prev) == IF curr - prev < 0 THEN 0 ELSE curr - prev

RECURSIVE Accrue_PrevNotAdvanced(_, _)
\* faulty variant: prev_rx, prev_tx stay those of the first row
Accrue_PrevNotAdvanced(rows, i) ==
    IF i > Len(rows) THEN <<0, 0>>
    ELSE LET rest == Accrue_PrevNotAdvanced(rows, i + 1)
         IN  <<ClampDelta(rows[i].rx, rows[1].rx) + rest[1],
               ClampDelta(rows[i].tx, rows[1].tx) + rest[2]>>

RECURSIVE Accrue(_, _)
\* the loop over rows[1:]; the result is <<total_rx, total_tx>>
Accrue(rows, i) ==
    IF i > Len(rows) THEN <<0, 0>>
    ELSE LET rest == Accrue(rows, i + 1)
         IN  <<ClampDelta(rows[i].rx, rows[i - 1].rx) + rest[1],
               ClampDelta(rows[i].tx, rows[i - 1].tx) + rest[2]>>

\* faulty variant: the total is taken as last minus first
UsageOfRows_LastMinusFirst(rows) ==
    IF Len(rows) < 2 THEN <<0, 0>>
    ELSE <<rows[Len(rows)].rx - rows[1].rx, rows[Len(rows)].tx - rows[1].tx>>

UsageOfRows(rows) == IF Len(rows) < 2 THEN <<0, 0>> ELSE Accrue(rows, 2)

compute_usage_between(st, start_ts, end_ts, iface) ==
    UsageOfRows(FetchRows(st, start_ts, end_ts, iface))

\* ------------------------------------------------------------ cmd_sample
\* insert_sample with the reader's counters at time t (a reader that raises
\* ends the command with the table as it was)
cmd_sample(iface, reading, t) ==
    /\ report = Idle
    /\ pc = "off"
    /\ t >= clock
    /\ store' = insert_sample(store, t, iface, reading)
    /\ clock' = t
    /\ UNCHANGED <<report, pc, pending, sig, errs>>

\* ------------------------------------------------- command-line values
\* An optional string argument: <<>> when the option is not given (None),
\* <<v>> when it is given with the text v.
Absent == <<>>
\* bool(x) of an optional string: None and "" are false
Truthy(opt) == opt # Absent /\ opt[1] # ""

\* the characters of the texts given to --last
Chars(s) ==
    CASE s = "0s" -> <<"0", "s">>
      [] s = "1h" -> <<"1", "h">>
      [] s = "5x" -> <<"5", "x">>
      [] OTHER -> <<>>

DigitValue(c) ==
    CASE c = "0" -> 0 [] c = "1" -> 1 [] c = "2" -> 2 [] c = "3" -> 3 [] c = "4" -> 4
      [] c = "5" -> 5 [] c = "6" -> 6 [] c = "7" -> 7 [] c = "8" -> 8 [] c = "9" -> 9
      [] OTHER -> -1
IsDigit(c) == DigitValue(c) >= 0
IsAlpha(c) == c \in {"s", "m", "h", "d", "w", "x"}

RECURSIVE ToInt(_)
\* int() of a string of digits
ToInt(ds) ==
    IF ds = <<>> THEN 0
    ELSE 10 * ToInt(SubSeq(ds, 1, Len(ds) - 1)) + DigitValue(ds[Len(ds)])

UnitSeconds(u) ==
    CASE u = <<"s">> -> 1
      [] u = <<"m">> -> 60
      [] u = <<"h">> -> HourSecs
      [] u = <<"d">> -> DaySecs
      [] u = <<"w">> -> 7 * DaySecs
      [] OTHER -> -1

\* parse_duration: [ok, seconds]; ok is FALSE where the code raises SystemExit
parse_duration(s) ==
    LET cs == Chars(s)
        digits == SelectSeq(cs, IsDigit)
        unit == SelectSeq(cs, IsAlpha)
    IN  IF cs = <<>> \/ digits = <<>> \/ UnitSeconds(unit) < 0
        THEN [ok |-> FALSE, seconds |-> 0]
        ELSE [ok |-> TRUE, seconds |-> ToInt(digits) * UnitSeconds(unit)]

\* the day number of a "%Y-%m-%d" text, -1 where strptime raises
DayNumber(date_str) ==
    CASE date_str = "1970-01-01" -> 0
      [] date_str = "1970-01-02" -> 1
      [] OTHER -> -1

\* day_bounds: <<start, end>> of the calendar day
day_bounds(date_str) ==
    <<DayNumber(date_str) * DaySecs, (DayNumber(date_str) + 1) * DaySecs>>

\* parse_iso: [ok, ts]; ok is FALSE where the code raises SystemExit
parse_iso(s) ==
    CASE s = "1970-01-01T00:00:00" -> [ok |-> TRUE, ts |-> 0]
      [] s = "1970-01-01T00:00:01" -> [ok |-> TRUE, ts |-> 1]
      [] s = "1970-01-01T01:00:00" -> [ok |-> TRUE, ts |-> HourSecs]
      [] s = "1970-01-01T01:30:00" -> [ok |-> TRUE, ts |-> 5400]
      [] s = "1970-01-01" -> [ok |-> TRUE, ts |-> 0]
      [] s = "1970-01-02" -> [ok |-> TRUE, ts |-> DaySecs]
      [] OTHER -> [ok |-> FALSE, ts |-> 0]

\* 'T' not in since_str and len(since_str) == 10
IsBareDate(s) == s \in {"1970-01-01", "1970-01-02"}

\* ------------------------------------------------ hourly_buckets_for_day
hourly_buckets_for_day(st, date_str, iface) ==
    LET start == day_bounds(date_str)[1]
        end == day_bounds(date_str)[2]
    IN  [i \in 1..HoursPerDay |->
            LET s == start + (i - 1) * HourSecs
                e == Min(s + HourSecs, end)
                u == compute_usage_between(st, s, e, iface)
            IN  <<i - 1, u[1], u[2]>>]

\* ------------------------------------------------------------ cmd_report
\* the selectors given on the command line (an empty text is still given)
GivenSelectors(args) ==
    {x \in {"day", "range", "last", "since"} :
        \/ x = "day" /\ args.day # Absent
        \/ x = "range" /\ args.range_from # Absent /\ args.range_to # Absent
        \/ x = "last" /\ args.last # Absent
        \/ x = "since" /\ args.since # Absent}

\* picks = sum(bool(x) for x in [day, range_from and range_to, last, since])
Picks(args) ==
    Cardinality({x \in {"day", "range", "last", "since"} :
        \/ x = "day" /\ Truthy(args.day)
        \/ x = "range" /\ Truthy(args.range_from) /\ Truthy(args.range_to)
        \/ x = "last" /\ Truthy(args.last)
        \/ x = "since" /\ Truthy(args.since)})

\* what an invocation that ends without a report leaves behind
Failed(status, args, fresh) ==
    [status |-> status, sel |-> "none", update |-> args.update,
     given |-> GivenSelectors(args), fresh |-> fresh,
     start |-> 0, end |-> 0, rows |-> <<>>, rx |-> 0, tx |-> 0, buckets |-> <<>>]

\* compute_usage_between on the resolved window, and print_usage_result
Reported(sel, args, fresh, st, start_ts, end_ts) ==
    LET u == compute_usage_between(st, start_ts, end_ts, args.iface)
    IN  [status |-> "ok", sel |-> sel, update |-> args.update,
         given |-> GivenSelectors(args), fresh |-> fresh,
         start |-> start_ts, end |-> end_ts,
         rows |-> FetchRows(st, start_ts, end_ts, args.iface),
         rx |-> u[1], tx |-> u[2],
         buckets |-> IF sel = "day" /\ args.hourly
                     THEN hourly_buckets_for_day(st, args.day[1], args.iface)
                     ELSE <<>>]

\* the body of cmd_report after the update: st is the table it reads, now the
\* value time.time() returns to it
ResolveAndReport(args, fresh, st, now) ==
    IF Picks(args) # 1 THEN Failed("ambiguous", args, fresh)
    ELSE IF Truthy(args.since) THEN
        IF IsBareDate(args.since[1])
        THEN Reported("since", args, fresh, st, day_bounds(args.since[1])[1], now)
        ELSE IF parse_iso(args.since[1]).ok
        THEN Reported("since", args, fresh, st, parse_iso(args.since[1]).ts, now)
        ELSE Failed("invalid_datetime", args, fresh)
    ELSE IF Truthy(args.day) THEN
        IF DayNumber(args.day[1]) < 0 THEN Failed("crash", args, fresh)
        ELSE Reported("day", args, fresh, st,
                      day_bounds(args.day[1])[1], day_bounds(args.day[1])[2])
    ELSE IF Truthy(args.range_from) /\ Truthy(args.range_to) THEN
        IF ~parse_iso(args.range_from[1]).ok \/ ~parse_iso(args.range_to[1]).ok
        THEN Failed("invalid_datetime", args, fresh)
        ELSE IF parse_iso(args.range_to[1]).ts <= parse_iso(args.range_from[1]).ts
        THEN Failed("invalid_range", args, fresh)
        ELSE Reported("range", args, fresh, st,
                      parse_iso(args.range_from[1]).ts, parse_iso(args.range_to[1]).ts)
    ELSE
        IF ~parse_duration(args.last[1]).ok THEN Failed("invalid_duration", args, fresh)
        ELSE Reported("last", args, fresh, st,
                      now - parse_duration(args.last[1]).seconds, now)

\* whether the invocation reads the clock for the end of its window
ReadsNow(args) == Picks(args) = 1 /\ (Truthy(args.since) \/ Truthy(args.last))

\* One invocation of report.  reading is what the interface reader returns to
\* the update, t1 the time insert_sample reads, t2 the time cmd_report reads.
cmd_report(args, reading, t1, t2) ==
    /\ report = Idle
    /\ pc = "off"
    /\ IF args.update /\ reading = ReadFail
       THEN \* insert_sample raises: the invocation ends with a traceback
            /\ report' = Failed("crash", args, NoSample)
            /\ UNCHANGED <<store, clock>>
       ELSE LET fresh == IF args.update THEN Sample(t1, args.iface, reading) ELSE NoSample
                st == IF args.update
                      THEN insert_sample(store, t1, args.iface, reading)
                      ELSE store
            IN  /\ store' = st
                /\ report' = ResolveAndReport(args, fresh, st, t2)
                /\ clock' = IF ReadsNow(args) THEN t2 ELSE t1
    /\ UNCHANGED <<pc, pending, sig, errs>>

\* main returns and the process exits
ProcessExit ==
    /\ report # Idle
    /\ report' = Idle
    /\ UNCHANGED <<store, clock, pc, pending, sig, errs>>

\* report --from A --to B on either interface
RangeArgs ==
    [iface : Ifaces, update : {FALSE}, hourly : {FALSE}, day : {Absent},
     range_from : {<<"1970-01-01T00:00:00">>, <<"1970-01-01T00:00:01">>,
                   <<"1970-01-01T01:00:00">>},
     range_to : {<<"1970-01-01T00:00:01">>, <<"1970-01-01T01:00:00">>,
                 <<"1970-01-01T01:30:00">>},
     last : {Absent}, since : {Absent}]

\* sample on either interface, and range reports over the table
Next ==
    \/ \E iface \in Ifaces, reading \in Readings, t \in Instants :
           /\ Len(store) < MaxSamples
           /\ cmd_sample(iface, reading, t)
    \/ /\ report = Idle
       /\ \E args \in RangeArgs : cmd_report(args, ReadFail, clock, clock)
    \/ ProcessExit

Spec == Init /\ [][Next]_vars

ReportArgs ==
    {a \in [iface : {"en0"}, update : BOOLEAN, hourly : BOOLEAN,
            day : {Absent, <<"">>, <<"1970-01-01">>},
            range_from : {Absent, <<"1970-01-01T00:00:00">>},
            range_to : {Absent, <<"1970-01-01T00:00:00">>, <<"1970-01-01T01:30:00">>},
            last : {Absent, <<"0s">>, <<"1h">>, <<"5x">>},
            since : {Absent, <<"1970-01-01">>, <<"1970-01-02">>, <<"bad">>}] :
        a.hourly => Truthy(a.day)}

NextReport ==
    \/ \E reading \in Readings, t \in Instants :
           /\ Len(store) < MaxReportSamples
           /\ cmd_sample("en0", reading, t)
    \/ /\ report = Idle
       /\ \E args \in ReportArgs :
         \E reading \in IF args.update THEN Readings \cup {ReadFail} ELSE {ReadFail} :
           \E t1 \in IF args.update THEN TimesFrom(clock) ELSE {clock} :
             \E t2 \in IF ReadsNow(args) THEN TimesFrom(t1) ELSE {t1} :
               /\ args.update => Len(store) < MaxReportSamples
               /\ cmd_report(args, reading, t1, t2)
    \/ ProcessExit

SpecReport == Init /\ [][NextReport]_vars

\* ------------------------------------------------------------- cmd_watch
\* The loop of cmd_watch on interface "en0".  pc is "tick" at the top of the
\* loop, "read" once insert_sample has the counters and the time, "inserted"
\* once the INSERT is executed and not yet committed, "failed" in the except
\* branch, "sleep" in time.sleep, "exited" once the process has ended.
InitWatch ==
    /\ store = <<>>
    /\ clock = 1
    /\ report = Idle
    /\ pc = "tick"
    /\ pending = NoSample
    /\ sig = FALSE
    /\ errs = FALSE

\* insert_sample: read_iface_bytes and time.time()
WatchRead(reading, t) ==
    /\ pc = "tick"
    /\ t >= clock
    /\ IF reading = ReadFail
       THEN /\ pc' = "failed"
            /\ UNCHANGED <<pending, clock>>
       ELSE /\ pc' = "read"
            /\ pending' = Sample(t, "en0", reading)
            /\ clock' = t
    /\ errs' = FALSE
    /\ UNCHANGED <<store, report, sig>>

\* insert_sample: cur.execute(INSERT ...), which may raise
WatchInsert(ok) ==
    /\ pc = "read"
    /\ IF ok
       THEN pc' = "inserted" /\ UNCHANGED pending
       ELSE pc' = "failed" /\ pending' = NoSample
    /\ UNCHANGED <<store, clock, report, sig, errs>>

\* insert_sample: con.commit(), which may raise, and the print of the sample
WatchCommit(ok) ==
    /\ pc = "inserted"
    /\ IF ok
       THEN /\ store' = insert_sample(store, pending.ts, pending.iface,
                                      <<pending.rx, pending.tx>>)
            /\ pc' = "sleep"
       ELSE /\ pc' = "failed"
            /\ UNCHANGED store
    /\ pending' = NoSample
    /\ UNCHANGED <<clock, report, sig, errs>>

\* faulty variant: the except branch ends the loop
WatchHandle_Exits ==
    /\ pc = "failed"
    /\ errs' = TRUE
    /\ pc' = "exited"
    /\ UNCHANGED <<store, clock, report, pending, sig>>

\* except Exception as e: print("[hata] ...")
WatchHandle ==
    /\ pc = "failed"
    /\ errs' = TRUE
    /\ pc' = "sleep"
    /\ UNCHANGED <<store, clock, report, pending, sig>>

\* time.sleep(interval) returns
WatchSleep ==
    /\ pc = "sleep"
    /\ pc' = "tick"
    /\ UNCHANGED <<store, clock, report, pending, sig, errs>>

\* SIGINT or SIGTERM: handler calls sys.exit(0) where the loop stands; a row
\* INSERTed and not committed is rolled back when the connection goes
Signal ==
    /\ pc \in {"tick", "read", "inserted", "failed", "sleep"}
    /\ sig' = TRUE
    /\ pc' = "exited"
    /\ pending' = NoSample
    /\ UNCHANGED <<store, clock, report, errs>>

\* one step of the loop; once the table holds MaxSamples rows only failing
\* reads are drawn
WatchStep ==
    \/ \E reading \in Readings \cup {ReadFail}, t \in Instants :
           /\ reading # ReadFail => Len(store) < MaxSamples
           /\ WatchRead(reading, t)
    \/ \E ok \in BOOLEAN : WatchInsert(ok)
    \/ \E ok \in BOOLEAN : WatchCommit(ok)
    \/ WatchHandle
    \/ WatchSleep

NextWatch == WatchStep \/ Signal

\* the interpreter keeps executing the loop: every step of it ends
SpecWatch == InitWatch /\ [][NextWatch]_vars /\ WF_vars(WatchStep)

\* ------------------------------------------------- properties: watch
\* C6: a tick that fails appends no sample, is reported, and does not end the
\* loop: unless a signal arrives the loop sleeps and makes another attempt.
C6_FailedTickContinues ==
    /\ [][(pc' = "failed" \/ pc = "failed") => store' = store]_vars
    /\ [][(pc = "failed" /\ pc' # "failed") => (sig' \/ (pc' = "sleep" /\ errs'))]_vars
    /\ [][(pc' = "exited" /\ pc # "exited") => sig']_vars
    /\ [](pc = "failed" => <>(pc = "tick" \/ sig))

\* a failed tick was reported, the sleep is over, the next attempt begins
C6_Witness ==
    /\ pc = "tick"
    /\ errs
    /\ ~sig
    /\ store # <<>>

CompleteRows(st) ==
    \A i \in 1..Len(st) :
        /\ DOMAIN st[i] = {"ts", "iface", "rx", "tx"}
        /\ st[i].ts >= 0 /\ st[i].iface \in Ifaces

\* C7: a signal ends the process at any point of the loop, only after an
\* insertion in flight has completed, and every row of the table is complete.
C7_ExitCompletesInFlightInsert ==
    /\ [][(sig' /\ ~sig) =>
            /\ pc' = "exited"
            /\ pc = "inserted" => store' = Append(store, pending)
            /\ CompleteRows(store')]_vars
    /\ [](sig => pc = "exited")

\* ------------------------------------------------- properties: report
RECURSIVE SumBuckets(_, _)
\* the sum of (rx, tx) over the buckets i..24
SumBuckets(buckets, i) ==
    IF i > Len(buckets) THEN <<0, 0>>
    ELSE LET rest == SumBuckets(buckets, i + 1)
         IN  <<buckets[i][2] + rest[1], buckets[i][3] + rest[2]>>

BucketEdges(start) == {start + h * HourSecs : h \in 0..HoursPerDay}

\* C3: in a day report with the hourly breakdown, when no sample of the day
\* lies exactly on a bucket edge, the 24 buckets sum to the day's totals.
C3_HourlySumsToDay ==
    (/\ report.status = "ok"
     /\ report.sel = "day"
     /\ report.buckets # <<>>
     /\ \A i \in 1..Len(report.rows) : report.rows[i].ts \notin BucketEdges(report.start))
    => SumBuckets(report.buckets, 1) = <<report.rx, report.tx>>

\* C4: a report is printed only when exactly one of day, range, last, since
\* is given, and when none or several are given the invocation ends with the
\* ambiguous-specification error.
C4_ExactlyOneSelector ==
    /\ report.status = "ok" => Cardinality(report.given) = 1
    /\ (report.status \notin {"idle", "crash"} /\ Cardinality(report.given) # 1)
           => report.status = "ambiguous"

\* the report of an invocation with --update whose window ends at now
UpdatedToNow ==
    /\ report.status = "ok"
    /\ report.update
    /\ report.sel \in {"since", "last"}

\* C5 as stated: with --update and --since or --last, the rows accrued contain
\* the fresh sample and have it as their last element.
C5_FreshSampleIsLast ==
    UpdatedToNow =>
        /\ report.rows # <<>>
        /\ report.rows[Len(report.rows)] = report.fresh

\* C5 amended: with --update and --since or --last, the fresh sample is in the
\* table, as its newest row, before the window end is read (its ts is at most
\* the window end); the rows accrued have it as their last element when the
\* window start is at most its ts, and do not contain it otherwise.
C5_FreshSampleIsLastIfInWindow ==
    UpdatedToNow =>
        /\ store # <<>>
        /\ store[Len(store)] = report.fresh
        /\ report.fresh.ts <= report.end
        /\ IF report.start <= report.fresh.ts
           THEN /\ report.rows # <<>>
                /\ report.rows[Len(report.rows)] = report.fresh
           ELSE \A i \in 1..Len(report.rows) : report.rows[i] # report.fresh

C5_Witness ==
    /\ UpdatedToNow
    /\ report.sel = "since"
    /\ Len(report.rows) >= 2
    /\ report.rows[Len(report.rows)] = report.fresh
    /\ report.fresh.ts < report.end
    /\ report.rx > 0

\* C9: a report over a window with start = end shows zero usage.
C9_EmptyWindowIsZero ==
    (report.status = "ok" /\ report.start = report.end)
    => (report.rx = 0 /\ report.tx = 0)

ResolverErrors == {"ambiguous", "invalid_range", "invalid_duration", "invalid_datetime"}

\* C10: a report invocation that ends with a resolver error leaves the samples
\* table as it was.
C10_FailedReportLeavesStore ==
    [][(report = Idle /\ report' # Idle /\ report'.status \in ResolverErrors)
          => store' = store]_vars

\* ------------------------------------------------- properties: accrual
\* the (window, interface) queries of a store: every selection of rows a
\* window can make is made by a window whose ends are instants
Queries == Instants \X Instants \X Ifaces

RowsOf(q) == FetchRows(store, q[1], q[2], q[3])
UsageOf(q) == compute_usage_between(store, q[1], q[2], q[3])

RxOf(rows) == [i \in 1..Len(rows) |-> rows[i].rx]
TxOf(rows) == [i \in 1..Len(rows) |-> rows[i].tx]

NonDecreasing(c) == \A i \in 2..Len(c) : c[i] >= c[i - 1]
\* the pairs (k-1, k) at which the counter c drops
Resets(c) == {k \in 2..Len(c) : c[k] < c[k - 1]}

\* C1: when the rows retrieved for a window number at least 2 and their
\* rx_bytes (resp. tx_bytes) never decrease in retrieval order, the total is
\* last.rx_bytes - first.rx_bytes (resp. last.tx_bytes - first.tx_bytes).
C1_NonDecreasingTelescopes ==
    /\ report = Idle =>
          \A q \in Queries :
              LET rows == RowsOf(q)
                  n == Len(rows)
              IN  n >= 2 =>
                    /\ NonDecreasing(RxOf(rows)) => UsageOf(q)[1] = rows[n].rx - rows[1].rx
                    /\ NonDecreasing(TxOf(rows)) => UsageOf(q)[2] = rows[n].tx - rows[1].tx
    /\ (report.status = "ok" /\ Len(report.rows) >= 2) =>
          LET rows == report.rows
              n == Len(rows)
          IN  /\ NonDecreasing(RxOf(rows)) => report.rx = rows[n].rx - rows[1].rx
              /\ NonDecreasing(TxOf(rows)) => report.tx = rows[n].tx - rows[1].tx

\* a range report over three rows whose rx grows twice
C1_Witness ==
    /\ report.status = "ok"
    /\ report.sel = "range"
    /\ Len(report.rows) >= 3
    /\ NonDecreasing(RxOf(report.rows))
    /\ report.rows[2].rx > report.rows[1].rx
    /\ report.rows[3].rx > report.rows[2].rx
    /\ report.rx = report.rows[Len(report.rows)].rx - report.rows[1].rx

\* the total of a counter series c with its single reset at pair k
OneResetTotal(c, k) == (c[k - 1] - c[1]) + (c[Len(c)] - c[k])

\* what a single reset leaves of the totals of rows
OneResetHolds(rows, usage) ==
    LET rx == RxOf(rows)
        tx == TxOf(rows)
    IN  /\ Cardinality(Resets(rx)) = 1 =>
              usage[1] = OneResetTotal(rx, CHOOSE k \in Resets(rx) : TRUE)
        /\ Cardinality(Resets(tx)) = 1 =>
              usage[2] = OneResetTotal(tx, CHOOSE k \in Resets(tx) : TRUE)
        /\ usage[2] = UsageOfRows([i \in 1..Len(rows) |-> [rows[i] EXCEPT !.rx = 0]])[2]
        /\ usage[1] = UsageOfRows([i \in 1..Len(rows) |-> [rows[i] EXCEPT !.tx = 0]])[1]

\* C2: when the rx series of the rows has exactly one reset, at pair k, the
\* rx total is (rx[k-1] - rx[first]) + (rx[last] - rx[k]); the same for tx;
\* and the total of one counter does not depend on the other counter's values.
C2_OneResetContributesZero ==
    /\ report = Idle => \A q \in Queries : OneResetHolds(RowsOf(q), UsageOf(q))
    /\ report.status = "ok" => OneResetHolds(report.rows, <<report.rx, report.tx>>)

\* a range report over three rows: a reset of rx, then growth
C2_Witness ==
    /\ report.status = "ok"
    /\ report.sel = "range"
    /\ Len(report.rows) = 3
    /\ Resets(RxOf(report.rows)) = {2}
    /\ report.rows[3].rx > report.rows[2].rx
    /\ report.rx = report.rows[3].rx - report.rows[2].rx
    /\ report.rows[3].rx - report.rows[1].rx < report.rx

\* C8: the totals of a window are componentwise >= those of every window
\* it contains, and totals are never negative, whatever resets the series has.
C8_MonotoneInWindow ==
    report = Idle =>
    \A iface \in Ifaces :
      \A s2 \in Instants : \A s1 \in TimesFrom(s2) :
        \A e1 \in TimesFrom(s1) : \A e2 \in TimesFrom(e1) :
            LET inner == compute_usage_between(store, s1, e1, iface)
                outer == compute_usage_between(store, s2, e2, iface)
            IN  /\ inner[1] >= 0 /\ inner[2] >= 0
                /\ outer[1] >= inner[1]
                /\ outer[2] >= inner[2]

C8_Witness ==
    \E iface \in Ifaces :
      \E s2 \in Instants : \E s1 \in TimesFrom(s2) :
        \E e1 \in TimesFrom(s1) : \E e2 \in TimesFrom(e1) :
            LET inner == compute_usage_between(store, s1, e1, iface)
                outer == compute_usage_between(store, s2, e2, iface)
                rows == FetchRows(store, s2, e2, iface)
            IN  /\ Resets(RxOf(rows)) # {}
                /\ Len(FetchRows(store, s1, e1, iface)) >= 2
                /\ inner[1] > 0
                /\ outer[1] = inner[1]
                /\ outer[2] > inner[2]

====
